---- MODULE Spec2Model ----
(***************************************************************************)
(* A model of the pdf_scrapper pipeline: the crawler (crawler/crawler.py), *)
(* the indexer (elasticsearch_index/es_index.py), the manifest store       *)
(* (storage/manifest.py) and the orchestrator (app.py, start_scraping).    *)
(*                                                                         *)
(* A Python dict is a TLA+ function whose DOMAIN is the set of keys that   *)
(* are present with a value other than None.  A timestamp (an ISO-8601     *)
(* string of fixed format, which Python orders as text) is a positive      *)
(* integer; the integer 0 stands for "no timestamp" (None, or the empty    *)
(* string the sort key falls back to).                                     *)
(***************************************************************************)
EXTENDS Integers, Sequences, FiniteSets, TLC

(***************************************************************************)
(* Bounds of the model.                                                    *)
(***************************************************************************)
\* number of update_manifest calls explored by SpecManifest
MaxUpdates == 3
\* largest value of the retries argument explored by SpecCrawl
MaxRetries == 3
\* number of start_scraping requests explored by Spec
MaxRuns == 2
\* number of index_multiple calls explored by SpecIndex
MaxIndexCalls == 2
\* number of start_scraping requests explored by SpecRuns
MaxLongRuns == 3
\* largest number of documents in one index_multiple call of SpecIndex
MaxBatch == 2

\* crawl_and_download(..., retries: int = 3, ...)
DefaultRetries == 3

VARIABLES
    ledger,        \* manifest.json of the download directory
    disk,          \* the files of the download directory: name -> content, mtime
    now,           \* the last timestamp the clock handed out
    calls,         \* number of update_manifest calls made (SpecManifest)
    umRecords,     \* the records of the last update_manifest call
    umResult,      \* the Manifest the last update_manifest call returned
    umWrote,       \* whether the last update_manifest call wrote the ledger
    umRepeat,      \* the last call repeated the records of the call before it:
                   \* the Manifest that earlier call returned (else <<>>)
    loaded,        \* the last bare load_manifest call: the ledger file it read
                   \* and what it returned or raised (<<>>: no such call)
    pc,            \* where control is
    web,           \* the site: page URL -> the hrefs of its anchors, in order
    allowed_hosts, \* crawl_and_download's argument (supplied or not)
    retries,       \* crawl_and_download's argument
    queue,         \* crawl_and_download: the frontier
    visited,       \* crawl_and_download: the URLs dequeued so far
    downloaded,    \* crawl_and_download: the descriptors collected so far
    current_url,   \* crawl_and_download: the page being processed
    links,         \* the anchors of the current page not yet processed
    attempt,       \* _request_with_retries: the attempt counter
    reqLog,        \* the outcomes of the GETs of the last _request_with_retries
    reqResult,     \* what that call returned: "response", "none" or "pending"
    fetched,       \* URL -> number of fetch operations started for it in this crawl
    pageOk,        \* the pages whose fetch returned a response in this crawl
    dl,            \* the last download_pdf call: target name, whether the file
                   \* existed, the outcomes of its GETs, whether it wrote the
                   \* file and whether it returned a descriptor
    esUp,          \* the search engine answers
    clientCached,  \* get_es_client's lru_cache holds a client
    esIndexExists, \* the engine has the index "pdfs"
    esDocs,        \* the engine's documents: id -> document
    upserts,       \* id -> number of es.index calls made for it since the
                   \* engine was empty
    phase,         \* which index_multiple call runs: "pending", "new" or "call"
    imInput,       \* index_multiple: its documents argument
    batch,         \* index_multiple: the documents not yet handled
    imRecords,     \* index_multiple: the records collected so far
    counts,        \* index_multiple: the counters indexed, duplicates, skipped
    imWrites,      \* the ids es.index was called with during this index_multiple,
                   \* in order
    imChecks,      \* the ids es.exists was called with during this
                   \* index_multiple, in order
    imBefore,      \* the ids the engine held when this index_multiple began
    imOutcome,     \* how it ended: "returned", "RuntimeError", "ConnectionError"
    imStats,       \* what it returned
    pending_to_index, \* start_scraping: the pending documents of the manifest
    pending_stats, \* start_scraping: the result for the pending batch
    new_stats,     \* start_scraping: the result for the downloaded batch
    response,      \* the last start_scraping response
    engineFault,   \* the function in which this request (or call) first found
                   \* the engine unreachable ("none": nowhere)
    outage,        \* the engine was unreachable at some moment since this
                   \* request (or call) began
    runs           \* number of start_scraping requests made

manifestVars == <<ledger, calls, umRecords, umResult, umWrote, umRepeat, loaded>>
engineVars == <<esUp, clientCached, esIndexExists, esDocs, upserts>>
indexVars == <<phase, imInput, batch, imRecords, counts, imWrites, imChecks, imBefore,
               imOutcome, imStats>>
runVars == <<pending_to_index, pending_stats, new_stats, response, runs, outage,
            engineFault>>
crawlVars == <<web, allowed_hosts, retries, queue, visited, downloaded,
               current_url, links, attempt, reqLog, reqResult, fetched, pageOk, dl>>
vars == <<manifestVars, crawlVars, engineVars, indexVars, runVars, disk, now, pc>>

(***************************************************************************)
(* Python dict helpers.                                                    *)
(***************************************************************************)
\* d.get(k) is not None
Has(d, k) == k \in DOMAIN d

\* d[k] = v on a copy of d
Put(d, k, v) == [x \in DOMAIN d \cup {k} |-> IF x = k THEN v ELSE d[x]]

\* the empty dict {}
EmptyDict == << >>

(***************************************************************************)
(* storage/manifest.py                                                     *)
(***************************************************************************)
Statuses == {"unknown", "not_indexed", "no_text", "duplicate", "indexed"}

\* _STATUS_PRIORITY.get(status, 0)
StatusPriority(status) ==
    CASE status = "indexed" -> 40
      [] status = "duplicate" -> 30
      [] status = "no_text" -> 20
      [] status = "not_indexed" -> 10
      [] OTHER -> 0

\* str(d.get("status") or "unknown")
StatusOrUnknown(d) ==
    IF Has(d, "status") /\ d["status"] # "" THEN d["status"] ELSE "unknown"

\* bool(d.get("indexed"))
IndexedFlag(d) == Has(d, "indexed") /\ d["indexed"]

\* the keys _merge_record copies from the incoming record
MergeKeys == {"name", "path", "url", "source_page", "downloaded_at", "size",
              "sha256", "id"}

\* the status step of _merge_record (a mutant: the incoming status always wins)
MergeStatusAlways(merged, new_data) ==
    Put(merged, "status", StatusOrUnknown(new_data))

\* the status step of _merge_record: replace only by a rank that is not lower
MergeStatus(merged, new_data) ==
    IF StatusPriority(StatusOrUnknown(new_data))
          >= StatusPriority(StatusOrUnknown(merged))
    THEN Put(merged, "status", StatusOrUnknown(new_data))
    ELSE merged

\* the indexed step of _merge_record (a mutant: the incoming flag replaces
\* the old one)
MergeIndexedIncoming(merged, new_data) ==
    IF "indexed" \in DOMAIN new_data
    THEN Put(merged, "indexed", new_data["indexed"])
    ELSE IF "indexed" \in DOMAIN merged
         THEN merged
         ELSE Put(merged, "indexed",
                  Has(merged, "status") /\ merged["status"] = "indexed")

\* the indexed step of _merge_record
MergeIndexed(merged, new_data) ==
    IF "indexed" \in DOMAIN new_data
    THEN Put(merged, "indexed", new_data["indexed"] \/ IndexedFlag(merged))
    ELSE IF "indexed" \in DOMAIN merged
         THEN merged
         ELSE Put(merged, "indexed",
                  Has(merged, "status") /\ merged["status"] = "indexed")

\* _merge_record(existing, new_data) (a mutant: the incoming record replaces
\* the document)
MergeRecordReplace(existing, new_data) == new_data

\* _merge_record(existing, new_data)
MergeRecord(existing, new_data) ==
    LET copied == DOMAIN new_data \cap MergeKeys
        fields == [k \in DOMAIN existing \cup copied |->
                     IF k \in copied THEN new_data[k] ELSE existing[k]]
    IN  MergeIndexed(MergeStatus(fields, new_data), new_data)

\* sum of the sizes of the documents that carry a numeric size
RECURSIVE TotalSize(_)
TotalSize(documents) ==
    IF documents = << >> THEN 0
    ELSE (IF Has(Head(documents), "size") THEN Head(documents)["size"] ELSE 0)
         + TotalSize(Tail(documents))

\* number of documents of the list with the given status
CountStatus(documents, status) ==
    Cardinality({i \in DOMAIN documents :
                    StatusOrUnknown(documents[i]) = status})

\* _compute_stats(documents)
ComputeStats(documents) ==
    LET present == {StatusOrUnknown(documents[i]) : i \in DOMAIN documents}
    IN  [total |-> Len(documents),
         indexed |-> CountStatus(documents, "indexed"),
         duplicates |-> CountStatus(documents, "duplicate"),
         skipped |-> Cardinality({i \in DOMAIN documents :
                        StatusOrUnknown(documents[i])
                            \notin {"indexed", "duplicate"}}),
         total_size |-> TotalSize(documents),
         status_breakdown |-> [s \in present |-> CountStatus(documents, s)]]

\* _default_manifest()
DefaultManifest ==
    [documents |-> << >>, stats |-> ComputeStats(<< >>), updated_at |-> 0]

\* the two setdefault calls of load_manifest on one document
LoadDefaults(doc) ==
    LET withStatus == IF "status" \in DOMAIN doc THEN doc
                      ELSE Put(doc, "status", "unknown")
    IN  IF "indexed" \in DOMAIN withStatus THEN withStatus
        ELSE Put(withStatus, "indexed", withStatus["status"] = "indexed")

\* load_manifest let an exception through: json.loads returned a value
\* that is not a dict, and line 49 calls data.get on it
LoadRaised == [raised |-> "AttributeError"]

\* load_manifest(base_dir): the ledger file is absent, is not JSON
\* ("invalid"), is JSON whose top level is not an object ("not_object"),
\* or holds what update_manifest wrote ("ok")
LoadManifest(file) ==
    IF file.kind \in {"absent", "invalid"} THEN DefaultManifest
    ELSE IF file.kind = "not_object" THEN LoadRaised
    ELSE LET documents == [i \in DOMAIN file.documents |->
                              LoadDefaults(file.documents[i])]
         IN  [documents |-> documents, stats |-> ComputeStats(documents),
              updated_at |-> file.updated_at]

\* str(doc.get("sha256") or doc.get("id") or "")
ShaOf(doc) ==
    IF Has(doc, "sha256") /\ doc["sha256"] # "" THEN doc["sha256"]
    ELSE IF Has(doc, "id") /\ doc["id"] # "" THEN doc["id"]
    ELSE ""

\* position of the key sha in the insertion-ordered dict by_hash (0: absent)
KeyIndex(by_hash, sha) ==
    IF \E i \in DOMAIN by_hash : by_hash[i].key = sha
    THEN CHOOSE i \in DOMAIN by_hash : by_hash[i].key = sha
    ELSE 0

\* by_hash[sha] = doc (a mutant: a list that every assignment appends to)
SetKeyAppendAlways(by_hash, sha, doc) ==
    Append(by_hash, [key |-> sha, doc |-> doc])

\* by_hash[sha] = doc: a dict keeps the position of a key it already holds
SetKey(by_hash, sha, doc) ==
    IF KeyIndex(by_hash, sha) = 0
    THEN Append(by_hash, [key |-> sha, doc |-> doc])
    ELSE [by_hash EXCEPT ![KeyIndex(by_hash, sha)] = [key |-> sha, doc |-> doc]]

\* by_hash.get(sha, {})
GetKey(by_hash, sha) ==
    IF KeyIndex(by_hash, sha) = 0 THEN EmptyDict
    ELSE by_hash[KeyIndex(by_hash, sha)].doc

\* the dict comprehension of update_manifest over existing.documents
RECURSIVE ByHash(_)
ByHash(documents) ==
    IF documents = << >> THEN << >>
    ELSE LET before == ByHash(SubSeq(documents, 1, Len(documents) - 1))
             doc == documents[Len(documents)]
         IN  IF ShaOf(doc) = "" THEN before
             ELSE SetKey(before, ShaOf(doc), doc)

\* the loop of update_manifest over the records: (by_hash, changed)
RECURSIVE MergeAll(_, _)
MergeAll(by_hash, records) ==
    IF records = << >> THEN [by_hash |-> by_hash, changed |-> FALSE]
    ELSE LET before == MergeAll(by_hash, SubSeq(records, 1, Len(records) - 1))
             record == records[Len(records)]
             sha == ShaOf(record)
             current == GetKey(before.by_hash, sha)
             merged == MergeRecord(current, record)
         IN  IF sha = "" \/ current = merged THEN before
             ELSE [by_hash |-> SetKey(before.by_hash, sha, merged),
                   changed |-> TRUE]

\* str(item.get("downloaded_at", ""))
SortKey(doc) == IF Has(doc, "downloaded_at") THEN doc["downloaded_at"] ELSE 0

\* sorted(..., key=downloaded_at, reverse=True): stable, latest first
RECURSIVE SortedDocs(_)
SortedDocs(documents) ==
    IF documents = << >> THEN << >>
    ELSE LET before == SortedDocs(SubSeq(documents, 1, Len(documents) - 1))
             doc == documents[Len(documents)]
             ahead == SelectSeq(before, LAMBDA d : SortKey(d) >= SortKey(doc))
             behind == SelectSeq(before, LAMBDA d : SortKey(d) < SortKey(doc))
         IN  ahead \o <<doc>> \o behind

\* the early return of update_manifest (a mutant: the ledger is always rewritten)
SkipWriteNever(changed, file) == FALSE

\* the early return of update_manifest: nothing changed and the file exists
SkipWrite(changed, file) == ~changed /\ file.kind # "absent"

\* update_manifest(base_dir, records) at time stamp: the Manifest returned,
\* the ledger file afterwards and whether the file was written
UpdateManifest(file, records, stamp) ==
    LET existing == LoadManifest(file)
        result == MergeAll(ByHash(existing.documents), records)
        documents == SortedDocs([i \in DOMAIN result.by_hash |->
                                    result.by_hash[i].doc])
        manifest == [documents |-> documents,
                     stats |-> ComputeStats(documents),
                     updated_at |-> stamp]
    IN  IF "raised" \in DOMAIN existing
        THEN [manifest |-> existing, file |-> file, wrote |-> FALSE]
        ELSE IF SkipWrite(result.changed, file)
        THEN [manifest |-> existing, file |-> file, wrote |-> FALSE]
        ELSE [manifest |-> manifest,
              file |-> [kind |-> "ok", documents |-> documents,
                        stats |-> manifest.stats, updated_at |-> stamp],
              wrote |-> TRUE]

\* the document the manifest holds for a content id (EmptyDict: none)
DocOf(manifest, sha) == GetKey(ByHash(manifest.documents), sha)

(***************************************************************************)
(* crawler/crawler.py                                                      *)
(*                                                                         *)
(* A URL is a record of its scheme, netloc and path; an href adds the      *)
(* fragment, and has an empty scheme and netloc when it is relative.       *)
(***************************************************************************)
\* str.lower() on the netlocs of the model
Lower(netloc) ==
    CASE netloc = "A.test" -> "a.test"
      [] netloc = "A.test:9090" -> "a.test:9090"
      [] OTHER -> netloc

\* ":" in netloc
HasColon(netloc) == netloc \in {"a.test:8080", "a.test:9090", "A.test:9090"}

\* netloc.split(":", 1)[0]
SplitPort(netloc) ==
    CASE netloc \in {"a.test:8080", "a.test:9090"} -> "a.test"
      [] netloc = "A.test:9090" -> "A.test"
      [] OTHER -> netloc

\* urlparse(url).hostname: the netloc without its port, lower-cased
Hostname(netloc) == Lower(SplitPort(netloc))

Url(scheme, netloc, path) == [scheme |-> scheme, netloc |-> netloc, path |-> path]

\* an href that names an absolute URL, and one relative to the page's host
AbsHref(scheme, netloc, path, fragment) ==
    [scheme |-> scheme, netloc |-> netloc, path |-> path, fragment |-> fragment]
RelHref(path, fragment) == AbsHref("", "", path, fragment)

\* `not href`: the attribute is empty
IsEmptyHref(href) ==
    href.scheme = "" /\ href.netloc = "" /\ href.path = "" /\ href.fragment = ""

\* urljoin(current_url, urldefrag(href)[0])
Urljoin(base, href) ==
    IF href.scheme # "" THEN Url(href.scheme, href.netloc, href.path)
    ELSE IF href.path = "" THEN base
    ELSE Url(base.scheme, base.netloc, href.path)

\* parsed.path.lower().endswith(".pdf")
IsPdfPath(path) == path \in {"/c.pdf", "/e.pdf", "/x.pdf", "/R.PDF"}

\* os.path.basename(parsed.path) or "downloaded.pdf"
TargetName(path) ==
    LET base == CASE path = "/c.pdf" -> "c.pdf"
                  [] path = "/e.pdf" -> "e.pdf"
                  [] path = "/x.pdf" -> "x.pdf"
                  [] path = "/R.PDF" -> "R.PDF"
                  [] path = "/b" -> "b"
                  [] path = "/d" -> "d"
                  [] path = "/e" -> "e"
                  [] OTHER -> ""
    IN  IF base = "" THEN "downloaded.pdf" ELSE base

\* the bytes the site serves for a document path
ServedContent(path) ==
    CASE path = "/c.pdf" -> "c1"
      [] path = "/e.pdf" -> "c2"
      [] path = "/R.PDF" -> "c0"
      [] OTHER -> "c1"

\* lines 77-84 of crawl_and_download: `if allowed_hosts:` is false for None
\* and for an empty iterable
AllowedSet(hosts) ==
    IF ~hosts.supplied \/ hosts.hosts = {} THEN [filter |-> FALSE, hosts |-> {}]
    ELSE [filter |-> TRUE,
          hosts |-> {Lower(h) : h \in hosts.hosts}
                      \cup {SplitPort(Lower(h)) :
                              h \in {x \in hosts.hosts : HasColon(Lower(x))}}]

\* line 111: `if allowed and netloc not in allowed and hostname not in allowed`
\* skips the link
AcceptsHost(allowed, url) ==
    \/ ~allowed.filter
    \/ allowed.hosts = {}
    \/ Lower(url.netloc) \in allowed.hosts
    \/ Hostname(url.netloc) \in allowed.hosts

\* the anchors of a fetched page
Links(site, url) == IF url \in DOMAIN site THEN site[url] ELSE << >>

\* what one GET can end in: a status code ("3xx": a redirection status that
\* requests does not follow, such as 300 or 304), a timeout or another
\* requests.exceptions.RequestException
GetOutcomes == {"200", "3xx", "403", "404", "500", "timeout", "error"}

\* response.raise_for_status() raises HTTPError: the status is 4xx or 5xx
RaisesForStatus(outcome) == outcome \in {"403", "404", "500"}

\* the GET of download_pdf ended in one of its two except clauses
DownloadFailed(outcome) ==
    outcome \in {"timeout", "error"} \/ RaisesForStatus(outcome)

\* response.content: the document for a 200, a body without text otherwise
ResponseContent(path, outcome) ==
    IF outcome = "200" THEN ServedContent(path) ELSE "c0"

\* `while queue:` is left (a mutant: with one URL still in the frontier)
FrontierEmptyEarly(frontier) == Len(frontier) <= 1

\* `while queue:` is left
FrontierEmpty(frontier) == frontier = << >>

\* where control goes when _request_with_retries returned None (a mutant:
\* the crawl ends)
AfterFailureAbort == "crawl_done"

\* lines 93-94: `if response is None: continue`
AfterFailure == "crawl_loop"

\* dl while download_pdf was not called
NoDownload ==
    [name |-> "", existed |-> FALSE, gets |-> << >>, wrote |-> FALSE,
     returned |-> FALSE]

\* `while attempt < retries` (a mutant: one attempt too many)
MoreAttemptsOffByOne(n, limit) == n <= limit

\* `while attempt < retries`
MoreAttempts(n, limit) == n < limit

\* the outcomes _request_with_retries retries: requests.exceptions.Timeout
RetriedOutcome(outcome) == outcome = "timeout"

\* fetched[url] += 1
Bump(tally, url) ==
    [u \in DOMAIN tally \cup {url} |->
        IF u = url THEN (IF u \in DOMAIN tally THEN tally[u] ELSE 0) + 1
        ELSE tally[u]]

\* lines 88-89: `if current_url in visited: continue`
SkipVisited(url, seen) == url \in seen

\* while queue: current_url = queue.popleft() ... up to the call of
\* _request_with_retries
CrawlDequeue ==
    /\ pc = "crawl_loop"
    /\ ~FrontierEmpty(queue)
    /\ queue' = Tail(queue)
    /\ reqLog' = << >>
    /\ IF SkipVisited(Head(queue), visited)
       THEN /\ pc' = "crawl_loop"
            /\ UNCHANGED <<visited, current_url, attempt, reqResult, fetched>>
       ELSE /\ visited' = visited \cup {Head(queue)}
            /\ current_url' = Head(queue)
            /\ attempt' = 0
            /\ fetched' = Bump(fetched, Head(queue))
            /\ IF MoreAttempts(0, retries)
               THEN pc' = "crawl_fetch" /\ reqResult' = "pending"
               ELSE pc' = AfterFailure /\ reqResult' = "none"
    /\ UNCHANGED <<manifestVars, web, allowed_hosts, retries, downloaded, links,
                   pageOk, dl, disk, now, engineVars, indexVars, runVars>>

\* one iteration of the loop of _request_with_retries: one GET
RequestAttempt ==
    /\ pc = "crawl_fetch"
    /\ \E outcome \in GetOutcomes :
         /\ reqLog' = Append(reqLog, outcome)
         /\ IF outcome = "200"
            THEN /\ reqResult' = "response"
                 /\ pageOk' = pageOk \cup {current_url}
                 /\ links' = Links(web, current_url)
                 /\ pc' = IF links' = << >> THEN "crawl_loop" ELSE "crawl_links"
                 /\ UNCHANGED attempt
            ELSE IF RetriedOutcome(outcome)
            THEN /\ attempt' = attempt + 1
                 /\ IF MoreAttempts(attempt + 1, retries)
                    THEN pc' = "crawl_fetch" /\ reqResult' = "pending"
                    ELSE pc' = AfterFailure /\ reqResult' = "none"
                 /\ UNCHANGED <<links, pageOk>>
            ELSE /\ reqResult' = "none"
                 /\ pc' = AfterFailure
                 /\ UNCHANGED <<attempt, links, pageOk>>
    /\ UNCHANGED <<manifestVars, web, allowed_hosts, retries, queue, visited,
                   downloaded, current_url, fetched, dl, disk, now, engineVars,
                   indexVars, runVars>>

\* the descriptor download_pdf returns, with the source_page the crawl adds
Descriptor(url, name, stamp, page) ==
    [url |-> url, path |-> name, filename |-> name, downloaded_at |-> stamp,
     source_page |-> page]

\* download_pdf(url, folder) for a link found on the current page
DownloadPdf(url) ==
    LET name == TargetName(url.path)
    IN  IF name \in DOMAIN disk
        THEN /\ downloaded' = Append(downloaded,
                    Descriptor(url, name, disk[name].mtime, current_url))
             /\ dl' = [name |-> name, existed |-> TRUE, gets |-> << >>,
                       wrote |-> FALSE, returned |-> TRUE]
             /\ UNCHANGED <<disk, now, fetched>>
        ELSE /\ fetched' = Bump(fetched, url)
             /\ \E outcome \in GetOutcomes :
                  IF ~DownloadFailed(outcome)
                  THEN /\ disk' = Put(disk, name,
                              [content |-> ResponseContent(url.path, outcome),
                               mtime |-> now + 1])
                       /\ now' = now + 1
                       /\ downloaded' = Append(downloaded,
                              Descriptor(url, name, now + 1, current_url))
                       /\ dl' = [name |-> name, existed |-> FALSE,
                                 gets |-> <<outcome>>, wrote |-> TRUE,
                                 returned |-> TRUE]
                  ELSE /\ dl' = [name |-> name, existed |-> FALSE,
                                 gets |-> <<outcome>>, wrote |-> FALSE,
                                 returned |-> FALSE]
                       /\ UNCHANGED <<disk, now, downloaded>>

\* one iteration of `for link in soup.select("a[href]")`
ProcessLink ==
    /\ pc = "crawl_links"
    /\ links # << >>
    /\ links' = Tail(links)
    /\ pc' = IF Tail(links) = << >> THEN "crawl_loop" ELSE "crawl_links"
    /\ reqLog' = << >>
    /\ LET href == Head(links)
           full_url == Urljoin(current_url, href)
       IN  IF \/ IsEmptyHref(href)
              \/ full_url.scheme \notin {"http", "https"}
              \/ ~AcceptsHost(AllowedSet(allowed_hosts), full_url)
           THEN UNCHANGED <<queue, downloaded, disk, now, fetched, dl>>
           ELSE IF IsPdfPath(full_url.path)
           THEN DownloadPdf(full_url) /\ UNCHANGED queue
           ELSE IF full_url \notin visited
           THEN /\ queue' = Append(queue, full_url)
                /\ UNCHANGED <<downloaded, disk, now, fetched, dl>>
           ELSE UNCHANGED <<queue, downloaded, disk, now, fetched, dl>>
    /\ UNCHANGED <<manifestVars, web, allowed_hosts, retries, visited,
                   current_url, attempt, reqResult, pageOk, engineVars, indexVars,
                   runVars>>

\* the frontier is empty: `return downloaded`
CrawlReturn ==
    /\ pc = "crawl_loop"
    /\ FrontierEmpty(queue)
    /\ pc' = "crawl_done"
    /\ UNCHANGED <<manifestVars, crawlVars, disk, now, engineVars, indexVars, runVars>>

(***************************************************************************)
(* elasticsearch_index/es_index.py                                         *)
(*                                                                         *)
(* A path is the name of a file of the download directory (the directory   *)
(* is resolved once, at start-up, so Path.resolve() changes no path).      *)
(***************************************************************************)
\* the bytes a file can hold
Contents == {"c0", "c1", "c2"}

\* file_sha256: the hex digest of the bytes (distinct bytes, distinct digests)
FileSha256(content) ==
    CASE content = "c1" -> "h1"
      [] content = "c2" -> "h2"
      [] OTHER -> "h0"

\* extract_pdf_text: a function of the bytes; c0 has nothing but white space
ExtractPdfText(content) ==
    CASE content = "c1" -> "alpha"
      [] content = "c2" -> "beta"
      [] OTHER -> " "

\* str.strip() (a mutant: white space is kept)
StripNothing(text) == text

\* str.strip()
Strip(text) == IF text \in {"", " "} THEN "" ELSE text

\* path.stat().st_size
FileSize(content) ==
    CASE content = "c1" -> 11
      [] content = "c2" -> 22
      [] OTHER -> 5

\* line 99, doc_hash (a mutant: the name is hashed, not the bytes)
DocHashOfName(path, content) == path

\* line 99: doc_hash = file_sha256(path)
DocHash(path, content) == FileSha256(content)

\* build_document_metadata(doc["path"], doc["url"], source_page=...,
\* downloaded_at=...) for a file that exists; stamp is utcnow()
BuildDocumentMetadata(doc, stamp) ==
    LET content == disk[doc["path"]].content
        sha == DocHash(doc["path"], content)
        metadata == [id |-> sha, sha256 |-> sha, name |-> doc["path"],
                     path |-> doc["path"], size |-> FileSize(content),
                     url |-> doc["url"],
                     downloaded_at |-> IF Has(doc, "downloaded_at")
                                       THEN doc["downloaded_at"] ELSE stamp]
    IN  IF Has(doc, "source_page")
        THEN Put(metadata, "source_page", doc["source_page"])
        ELSE metadata

\* metadata.update({"indexed": flag, "status": status}) (a mutant: every
\* record is reported as indexed)
WithStatusIndexed(metadata, flag, status) ==
    Put(Put(metadata, "indexed", TRUE), "status", "indexed")

\* metadata.update({"indexed": flag, "status": status})
WithStatus(metadata, flag, status) ==
    Put(Put(metadata, "indexed", flag), "status", status)

\* es.exists(index=ES_INDEX, id=doc_hash) (a mutant: the check is skipped)
EsExistsNever(sha) == FALSE

\* es.exists(index=ES_INDEX, id=doc_hash)
EsExists(sha) == sha \in DOMAIN esDocs

\* es.index(index=ES_INDEX, id=doc_hash, document=document) (a mutant: the
\* engine does not keep what it is given)
EsIndexLost(docs, sha, document) == docs

\* es.index(index=ES_INDEX, id=doc_hash, document=document,
\* refresh="wait_for"): the engine holds the document under the id
EsIndex(docs, sha, document) == Put(docs, sha, document)

\* number of es.index calls made for the id so far
Upserted(sha) == IF sha \in DOMAIN upserts THEN upserts[sha] ELSE 0

\* index_pdf(path, url, ..., client=es): nothing ("none"), a record, or the
\* engine's ConnectionError ("raise"); check and write tell whether es.exists
\* and es.index were called
IndexPdfResult(doc, stamp) ==
    IF doc["path"] \notin DOMAIN disk THEN [kind |-> "none"]
    ELSE LET metadata == BuildDocumentMetadata(doc, stamp)
             pdf_content == ExtractPdfText(disk[doc["path"]].content)
         IN  IF Strip(pdf_content) = ""
             THEN [kind |-> "record", check |-> FALSE, write |-> FALSE,
                   record |-> WithStatus(metadata, FALSE, "no_text")]
             ELSE IF ~esUp THEN [kind |-> "raise"]
             ELSE IF EsExists(metadata["sha256"])
             THEN [kind |-> "record", check |-> TRUE, write |-> FALSE,
                   record |-> WithStatus(metadata, FALSE, "duplicate")]
             ELSE [kind |-> "record", check |-> TRUE, write |-> TRUE,
                   document |-> Put(metadata, "content", pdf_content),
                   record |-> WithStatus(metadata, TRUE, "indexed")]

\* the counters of index_multiple after a record (a mutant: every record is
\* counted as skipped)
TallySkipped(tally, status) == [tally EXCEPT !.skipped = @ + 1]

\* the counters of index_multiple after a record of the given status
Tally(tally, status) ==
    IF status = "indexed" THEN [tally EXCEPT !.indexed = @ + 1]
    ELSE IF status = "duplicate" THEN [tally EXCEPT !.duplicates = @ + 1]
    ELSE [tally EXCEPT !.skipped = @ + 1]

\* _empty_index_stats() of app.py, and the counters index_multiple starts with
EmptyIndexStats ==
    [indexed |-> 0, duplicates |-> 0, skipped |-> 0, documents |-> << >>]

\* the exceptions the `except RuntimeError` of start_scraping handles
Caught(exc) == exc = "RuntimeError"

\* an engine call of the indexing code raised: where control goes, in a
\* start_scraping request and in a bare index_multiple call
Raise(exc, where) ==
    /\ imOutcome' = exc
    /\ engineFault' = IF engineFault = "none" THEN where ELSE engineFault
    /\ IF phase = "call"
       THEN pc' = "idle" /\ UNCHANGED response
       ELSE IF Caught(exc)
       THEN pc' = "deferred" /\ UNCHANGED response
       ELSE pc' = "idle" /\ response' = [status |-> "500"]

\* the engine stops or starts answering; the pipeline sees it only where it
\* calls the engine
EngineToggle ==
    /\ pc \in {"create_index", "index_begin", "index_step"}
    /\ esUp' = ~esUp
    /\ outage' = TRUE
    /\ UNCHANGED <<manifestVars, crawlVars, clientCached, esIndexExists, esDocs, upserts,
                   indexVars, pending_to_index, pending_stats, new_stats,
                   response, runs, engineFault, disk, now, pc>>

\* the call index_multiple(documents) is entered
EnterIndexMultiple(documents, which) ==
    /\ phase' = which
    /\ imInput' = documents
    /\ batch' = documents
    /\ imRecords' = << >>
    /\ counts' = [indexed |-> 0, duplicates |-> 0, skipped |-> 0]
    /\ imWrites' = << >>
    /\ imChecks' = << >>
    /\ imBefore' = DOMAIN esDocs
    /\ imOutcome' = "running"
    /\ imStats' = EmptyIndexStats
    /\ pc' = "index_begin"

\* index_multiple, line 168: es = client or get_es_client()
IndexMultipleBegin ==
    /\ pc = "index_begin"
    /\ IF ~clientCached /\ ~esUp
       THEN Raise("RuntimeError", "index_multiple") /\ UNCHANGED clientCached
       ELSE /\ clientCached' = TRUE
            /\ pc' = "index_step"
            /\ UNCHANGED <<imOutcome, engineFault, response>>
    /\ UNCHANGED <<manifestVars, crawlVars, esUp, esIndexExists, esDocs, upserts, phase,
                   imInput, batch, imRecords, counts, imWrites, imChecks, imBefore,
                   imStats,
                   pending_to_index, pending_stats, new_stats, runs, outage, disk, now>>

\* one iteration of the loop of index_multiple: index_pdf on the next document
IndexPdf ==
    /\ pc = "index_step"
    /\ batch # << >>
    /\ LET doc == Head(batch)
           result == IndexPdfResult(doc, now + 1)
           status == IF result.kind = "record" THEN result.record["status"] ELSE ""
       IN  /\ now' = IF doc["path"] \in DOMAIN disk /\ ~Has(doc, "downloaded_at")
                     THEN now + 1 ELSE now
           /\ IF result.kind = "raise"
              THEN /\ Raise("ConnectionError", "index_pdf")
                   /\ UNCHANGED <<batch, imRecords, counts, imWrites, imChecks, esDocs, upserts,
                                  esIndexExists>>
              ELSE /\ batch' = Tail(batch)
                   /\ pc' = "index_step"
                   /\ UNCHANGED <<imOutcome, engineFault, response>>
                   /\ IF result.kind = "none"
                      THEN UNCHANGED <<imRecords, counts, imWrites, imChecks, esDocs, upserts,
                                       esIndexExists>>
                      ELSE /\ imRecords' = Append(imRecords, result.record)
                           /\ counts' = Tally(counts, status)
                           /\ imChecks' = IF result.check
                                          THEN Append(imChecks, result.record["sha256"])
                                          ELSE imChecks
                           /\ IF result.write
                              THEN /\ esDocs' = EsIndex(esDocs, result.record["sha256"],
                                                        result.document)
                                   /\ upserts' = Put(upserts, result.record["sha256"],
                                                     Upserted(result.record["sha256"]) + 1)
                                   /\ imWrites' = Append(imWrites,
                                                    result.record["sha256"])
                                   /\ esIndexExists' = TRUE
                              ELSE UNCHANGED <<esDocs, upserts, imWrites, esIndexExists>>
    /\ UNCHANGED <<manifestVars, crawlVars, esUp, clientCached, phase, imInput,
                   imBefore, imStats, pending_to_index, pending_stats, new_stats,
                   runs, outage, disk>>

\* index_multiple returns its statistics and records
IndexMultipleReturn ==
    /\ pc = "index_step"
    /\ batch = << >>
    /\ LET stats == [indexed |-> counts.indexed, duplicates |-> counts.duplicates,
                     skipped |-> counts.skipped, documents |-> imRecords]
       IN  /\ imStats' = stats
           /\ imOutcome' = "returned"
           /\ IF phase = "pending"
              THEN pending_stats' = stats /\ pc' = "call_new" /\ UNCHANGED new_stats
              ELSE IF phase = "new"
              THEN new_stats' = stats /\ pc' = "update" /\ UNCHANGED pending_stats
              ELSE pc' = "idle" /\ UNCHANGED <<pending_stats, new_stats>>
    /\ UNCHANGED <<manifestVars, crawlVars, engineVars, phase, imInput, batch,
                   imRecords, counts, imWrites, imChecks, imBefore, pending_to_index,
                   response,
                   runs, outage, engineFault, disk, now>>

\* the engine, the indexer and the orchestrator while they are not used
EngineIdle ==
    /\ esUp = TRUE
    /\ clientCached = FALSE
    /\ esIndexExists = FALSE
    /\ esDocs = << >>
    /\ upserts = << >>

IndexIdle ==
    /\ phase = "call"
    /\ imInput = << >>
    /\ batch = << >>
    /\ imRecords = << >>
    /\ counts = [indexed |-> 0, duplicates |-> 0, skipped |-> 0]
    /\ imWrites = << >>
    /\ imChecks = << >>
    /\ imBefore = {}
    /\ imOutcome = "returned"
    /\ imStats = EmptyIndexStats

RunIdle ==
    /\ pending_to_index = << >>
    /\ pending_stats = EmptyIndexStats
    /\ new_stats = EmptyIndexStats
    /\ response = [status |-> "none"]
    /\ runs = 0
    /\ engineFault = "none"
    /\ outage = FALSE

(***************************************************************************)
(* The site the crawler walks.                                             *)
(***************************************************************************)
StartUrl == Url("http", "a.test", "/")
PageB == Url("http", "a.test", "/b")
PageD == Url("http", "d.test", "/d")
PageE == Url("http", "A.test:9090", "/e")

\* A -> B -> c.pdf and A -> D, D on another host
ChainSite ==
    (StartUrl :> <<RelHref("/b", ""), AbsHref("http", "d.test", "/d", "")>>)
    @@ (PageB :> <<RelHref("/c.pdf", "")>>)
    @@ (PageD :> <<RelHref("/x.pdf", "")>>)

\* a site with a cycle, a self link, a link that several pages carry, a
\* fragment, an empty href, a mailto link and a second port of the host
MeshSite ==
    (StartUrl :> <<RelHref("/c.pdf", ""), RelHref("/b", ""),
                   AbsHref("http", "d.test", "/d", ""),
                   AbsHref("mailto", "", "x", ""),
                   AbsHref("http", "A.test:9090", "/e", ""),
                   RelHref("", "")>>)
    @@ (PageB :> <<RelHref("/c.pdf", "p2"), RelHref("/e.pdf", ""),
                   RelHref("/", ""), RelHref("", "top")>>)
    @@ (PageD :> <<RelHref("/x.pdf", "")>>)
    @@ (PageE :> <<RelHref("/R.PDF", ""), RelHref("/b", "")>>)

\* a document that two pages link to: A -> c.pdf, A -> B -> c.pdf
TwinLinkSite ==
    (StartUrl :> <<RelHref("/c.pdf", ""), RelHref("/b", "")>>)
    @@ (PageB :> <<RelHref("/c.pdf", "")>>)

\* the values of allowed_hosts the crawl is started with
AllowedInputs ==
    {[supplied |-> FALSE, hosts |-> {}]}
        \cup {[supplied |-> TRUE, hosts |-> h] :
                h \in {{}, {"a.test"}, {"A.test"}, {"a.test:8080"}, {"d.test", "a.test"}}}

\* the crawl variables while no crawl runs, for the site the crawler is to walk
CrawlIdleOn(site) ==
    /\ web = site
    /\ allowed_hosts = [supplied |-> TRUE, hosts |-> {"a.test"}]
    /\ retries = DefaultRetries
    /\ queue = << >>
    /\ visited = {}
    /\ downloaded = << >>
    /\ current_url = StartUrl
    /\ links = << >>
    /\ attempt = 0
    /\ reqLog = << >>
    /\ reqResult = "none"
    /\ fetched = << >>
    /\ pageOk = {}
    /\ dl = NoDownload

CrawlIdle == CrawlIdleOn(MeshSite)

\* the manifest history variables while no update_manifest call was made
ManifestIdle ==
    /\ calls = 0
    /\ umRecords = << >>
    /\ umResult = DefaultManifest
    /\ umWrote = FALSE
    /\ umRepeat = << >>
    /\ loaded = << >>

(***************************************************************************)
(* SpecCrawl: one call crawl_and_download(StartUrl, dir, retries,          *)
(* allowed_hosts=...) on an empty download directory.                      *)
(***************************************************************************)
InitCrawl ==
    /\ web \in {ChainSite, MeshSite}
    /\ allowed_hosts \in AllowedInputs
    /\ retries \in 0..MaxRetries
    /\ queue = <<StartUrl>>
    /\ visited = {}
    /\ downloaded = << >>
    /\ current_url = StartUrl
    /\ links = << >>
    /\ attempt = 0
    /\ reqLog = << >>
    /\ reqResult = "none"
    /\ fetched = << >>
    /\ pageOk = {}
    /\ dl = NoDownload
    /\ pc = "crawl_loop"
    /\ disk = << >>
    /\ now = 0
    /\ ledger = [kind |-> "absent"]
    /\ ManifestIdle
    /\ EngineIdle
    /\ IndexIdle
    /\ RunIdle

NextCrawl == CrawlDequeue \/ RequestAttempt \/ ProcessLink \/ CrawlReturn

SpecCrawl == InitCrawl /\ [][NextCrawl]_vars

\* the crawl is one sequential loop: while a step is possible the process
\* takes one (every GET is bounded by its timeout)
SpecCrawlFair == SpecCrawl /\ WF_vars(NextCrawl)

(***************************************************************************)
(* SpecManifest: update_manifest called on one download directory with     *)
(* records of every shape.                                                 *)
(***************************************************************************)
Shas == {"h0", "h1", "h2"}

\* the descriptive fields of a record, for the file name it describes
Describe(sha, name) ==
    [id |-> sha, sha256 |-> sha, name |-> name, path |-> name,
     url |-> name, downloaded_at |-> IF name = "a.pdf" THEN 1 ELSE 2,
     size |-> IF sha = "h1" THEN 11 ELSE 22]

\* a record with every combination of a status and an indexed flag, each
\* present or missing
Shapes(base) ==
    LET withStatus == base \cup
            {Put(r, "status", s) : r \in base, s \in Statuses \ {"unknown"}}
    IN  withStatus \cup {Put(r, "indexed", b) : r \in withStatus, b \in BOOLEAN}

\* the records the pipeline itself produces (index_pdf, _pending_records)
PipelineRecords(sha) ==
    {r \in Shapes({Describe(sha, "a.pdf")}) :
        /\ "status" \in DOMAIN r /\ "indexed" \in DOMAIN r
        /\ r["indexed"] = (r["status"] = "indexed")}

\* the records update_manifest is called with: every shape for one content
\* id under two file names, and the pipeline's records for another id
RecordInputs ==
    Shapes({Describe("h1", "a.pdf"), Describe("h1", "b.pdf")})
        \cup PipelineRecords("h2")

\* the argument of one update_manifest call
CallInputs ==
    {<<r>> : r \in RecordInputs}
        \cup {<<r, s>> : r \in {x \in PipelineRecords("h1") :
                                    x["status"] \in {"indexed", "not_indexed"}},
                         s \in {x \in PipelineRecords("h1") \cup PipelineRecords("h2") :
                                    x["status"] \in {"duplicate", "not_indexed"}}}
        \cup {<< >>}

InitManifest ==
    /\ ledger \in {[kind |-> "absent"], [kind |-> "invalid"]}
    /\ now = 0
    /\ ManifestIdle
    /\ CrawlIdle
    /\ EngineIdle
    /\ IndexIdle
    /\ RunIdle
    /\ disk = << >>
    /\ pc = "idle"

\* one call update_manifest(dir, records)
UpdateManifestCall ==
    /\ calls < MaxUpdates
    /\ \E records \in CallInputs :
         LET out == UpdateManifest(ledger, records, now + 1)
         IN  /\ ledger' = out.file
             /\ umRecords' = records
             /\ umResult' = out.manifest
             /\ umWrote' = out.wrote
             /\ umRepeat' = IF calls > 0 /\ records = umRecords
                            THEN <<umResult>> ELSE << >>
    /\ now' = now + 1
    /\ calls' = calls + 1
    /\ UNCHANGED <<loaded, crawlVars, disk, pc, engineVars, indexVars, runVars>>

NextManifest == UpdateManifestCall

SpecManifest == InitManifest /\ [][NextManifest]_vars

(***************************************************************************)
(* SpecLoad: load_manifest and update_manifest called on a download        *)
(* directory whose ledger file starts in any state.                        *)
(***************************************************************************)
\* the states a ledger file that update_manifest did not write can be in
ForeignLedgers ==
    {[kind |-> "absent"], [kind |-> "invalid"], [kind |-> "not_object"]}

InitLoad ==
    /\ ledger \in ForeignLedgers
    /\ now = 0
    /\ ManifestIdle
    /\ CrawlIdle
    /\ EngineIdle
    /\ IndexIdle
    /\ RunIdle
    /\ disk = << >>
    /\ pc = "idle"

\* one call load_manifest(dir)
LoadManifestCall ==
    /\ loaded' = <<ledger, LoadManifest(ledger)>>
    /\ UNCHANGED <<ledger, calls, umRecords, umResult, umWrote, umRepeat,
                   crawlVars, disk, now, pc, engineVars, indexVars, runVars>>

NextLoad == LoadManifestCall \/ UpdateManifestCall

SpecLoad == InitLoad /\ [][NextLoad]_vars

(***************************************************************************)
(* SpecIndex: index_multiple called on descriptors of files of the         *)
(* download directory, the engine answering or not.                        *)
(***************************************************************************)
\* the descriptor of a file, as the crawler or the manifest gives it
InputDoc(name) ==
    IF name = "c.pdf"
    THEN [path |-> name, url |-> Url("http", "a.test", "/c.pdf"),
          source_page |-> StartUrl, downloaded_at |-> 1]
    ELSE IF name = "e.pdf"
    THEN [path |-> name, url |-> Url("http", "a.test", "/e.pdf")]
    ELSE [path |-> name, url |-> Url("http", "a.test", "/x.pdf"),
          downloaded_at |-> 1]

\* the lists of at most n descriptors
RECURSIVE DocLists(_)
DocLists(n) ==
    IF n = 0 THEN {<< >>}
    ELSE DocLists(n - 1)
            \cup {Append(l, InputDoc(name)) :
                    l \in {x \in DocLists(n - 1) : Len(x) = n - 1},
                    name \in {"c.pdf", "e.pdf", "x.pdf"}}

InitIndex ==
    /\ disk \in {("c.pdf" :> [content |-> a, mtime |-> 1])
                    @@ ("e.pdf" :> [content |-> b, mtime |-> 1]) :
                 a \in Contents, b \in Contents}
    /\ esUp \in BOOLEAN
    /\ clientCached \in BOOLEAN
    /\ esIndexExists = FALSE
    /\ esDocs = << >>
    /\ upserts = << >>
    /\ ledger = [kind |-> "absent"]
    /\ now = 1
    /\ ManifestIdle
    /\ CrawlIdle
    /\ IndexIdle
    /\ RunIdle
    /\ pc = "idle"

\* a call index_multiple(documents)
IndexMultipleCall ==
    /\ pc = "idle"
    /\ runs < MaxIndexCalls
    /\ runs' = runs + 1
    /\ engineFault' = "none"
    /\ outage' = ~esUp
    /\ \E documents \in DocLists(MaxBatch) : EnterIndexMultiple(documents, "call")
    /\ UNCHANGED <<manifestVars, crawlVars, engineVars, pending_to_index,
                   pending_stats, new_stats, response, disk, now>>

NextIndex ==
    \/ IndexMultipleCall
    \/ IndexMultipleBegin
    \/ IndexPdf
    \/ IndexMultipleReturn
    \/ EngineToggle

SpecIndex == InitIndex /\ [][NextIndex]_vars

(***************************************************************************)
(* app.py: the start_scraping request.                                     *)
(***************************************************************************)
\* storage.manifest.pending_documents (a mutant: every document is pending)
PendingDocumentsAll(manifest) == manifest.documents

\* storage.manifest.pending_documents: the documents whose status is not
\* indexed, in the manifest's order
PendingDocuments(manifest) ==
    SelectSeq(manifest.documents,
              LAMBDA doc : ~(Has(doc, "status") /\ doc["status"] = "indexed"))

\* _combine_index_stats(pending_stats, new_stats)
CombineIndexStats(a, b) ==
    [indexed |-> a.indexed + b.indexed,
     duplicates |-> a.duplicates + b.duplicates,
     skipped |-> a.skipped + b.skipped]

\* list(_pending_records(documents)): a document whose file is gone is left out
RECURSIVE PendingRecords(_, _)
PendingRecords(documents, stamp) ==
    IF documents = << >> THEN << >>
    ELSE LET doc == Head(documents)
             rest == PendingRecords(Tail(documents), stamp)
         IN  IF doc["path"] \notin DOMAIN disk THEN rest
             ELSE <<WithStatus(BuildDocumentMetadata(doc, stamp), FALSE,
                               "not_indexed")>> \o rest

\* _update_manifest(records): update_manifest on the download directory
ApplyUpdate(recs) ==
    LET out == UpdateManifest(ledger, recs, now + 1)
    IN  /\ ledger' = out.file
        /\ umRecords' = recs
        /\ umResult' = out.manifest
        /\ umWrote' = out.wrote
        /\ umRepeat' = IF calls > 0 /\ recs = umRecords
                       THEN <<umResult>> ELSE << >>
        /\ now' = now + 1
        /\ calls' = calls + 1
        /\ UNCHANGED loaded

\* POST /start_scraping up to the call of crawl_and_download; an empty url
\* is answered with 400; limit bounds the number of requests explored
StartRequest(limit) ==
    /\ pc = "idle"
    /\ runs < limit
    /\ \E website_url \in {"", "http://a.test/"} :
         IF website_url = ""
         THEN /\ response' = [status |-> "400"]
              /\ UNCHANGED <<crawlVars, pc, runs, outage, engineFault>>
         ELSE /\ response' = [status |-> "none"]
              /\ runs' = runs + 1
              /\ engineFault' = "none"
              /\ outage' = ~esUp
              /\ allowed_hosts' = [supplied |-> TRUE, hosts |-> {StartUrl.netloc}]
              /\ retries' = DefaultRetries
              /\ queue' = <<StartUrl>>
              /\ visited' = {}
              /\ downloaded' = << >>
              /\ fetched' = << >>
              /\ pageOk' = {}
              /\ dl' = NoDownload
              /\ reqLog' = << >>
              /\ pc' = "crawl_loop"
              /\ UNCHANGED <<web, current_url, links, attempt, reqResult>>
    /\ UNCHANGED <<manifestVars, engineVars, indexVars, pending_to_index,
                   pending_stats, new_stats, disk, now>>

StartScraping == StartRequest(MaxRuns)

\* lines 107-112: crawl_and_download has returned, its locals are gone and
\* only the list it returned is kept; then
\* pending_to_index = pending_documents(_load_manifest())
LoadPending ==
    /\ pc = "crawl_done"
    /\ pending_to_index' = PendingDocuments(LoadManifest(ledger))
    /\ phase' = "pending"
    /\ pc' = "create_index"
    /\ queue' = << >>
    /\ visited' = {}
    /\ current_url' = StartUrl
    /\ links' = << >>
    /\ attempt' = 0
    /\ reqLog' = << >>
    /\ reqResult' = "none"
    /\ fetched' = << >>
    /\ pageOk' = {}
    /\ dl' = NoDownload
    /\ UNCHANGED <<manifestVars, web, allowed_hosts, retries, downloaded,
                   engineVars, imInput, batch, imRecords, counts, imWrites,
                   imChecks, imBefore, imOutcome, imStats, pending_stats,
                   new_stats, response, runs, outage, engineFault, disk, now>>

\* line 115: create_index(): get_es_client(), then es.indices.exists and,
\* if the index is missing, es.indices.create
CreateIndex ==
    /\ pc = "create_index"
    /\ IF ~clientCached /\ ~esUp
       THEN /\ Raise("RuntimeError", "create_index")
            /\ UNCHANGED <<clientCached, esIndexExists>>
       ELSE /\ clientCached' = TRUE
            /\ IF ~esUp
               THEN /\ Raise("ConnectionError", "create_index")
                    /\ UNCHANGED esIndexExists
               ELSE /\ esIndexExists' = TRUE
                    /\ pc' = "call_pending"
                    /\ UNCHANGED <<imOutcome, engineFault, response>>
    /\ UNCHANGED <<manifestVars, crawlVars, esUp, esDocs, upserts, phase, imInput, batch,
                   imRecords, counts, imWrites, imChecks, imBefore, imStats,
                   pending_to_index, pending_stats, new_stats, runs, outage, disk, now>>

\* lines 116-118: index_multiple(pending_to_index) if there is any
CallPending ==
    /\ pc = "call_pending"
    /\ IF pending_to_index # << >>
       THEN EnterIndexMultiple(pending_to_index, "pending") /\ UNCHANGED pending_stats
       ELSE /\ pending_stats' = EmptyIndexStats
            /\ pc' = "call_new"
            /\ UNCHANGED indexVars
    /\ UNCHANGED <<manifestVars, crawlVars, engineVars, pending_to_index,
                   new_stats, response, runs, outage, engineFault, disk, now>>

\* lines 119-123: index_multiple(downloaded_documents) if there is any
CallNew ==
    /\ pc = "call_new"
    /\ IF downloaded # << >>
       THEN EnterIndexMultiple(downloaded, "new") /\ UNCHANGED new_stats
       ELSE /\ new_stats' = EmptyIndexStats
            /\ pc' = "update"
            /\ UNCHANGED indexVars
    /\ UNCHANGED <<manifestVars, crawlVars, engineVars, pending_to_index,
                   pending_stats, response, runs, outage, engineFault, disk, now>>

\* lines 124-127 and 142-155: both batches are merged into the manifest
UpdateSuccess ==
    /\ pc = "update"
    /\ ApplyUpdate(pending_stats.documents \o new_stats.documents)
    /\ response' = [status |-> "200", downloaded |-> Len(downloaded),
                    totals |-> CombineIndexStats(pending_stats, new_stats),
                    library_total |-> umResult'.stats.total]
    /\ pc' = "idle"
    /\ UNCHANGED <<crawlVars, engineVars, indexVars, pending_to_index,
                   pending_stats, new_stats, runs, outage, engineFault, disk>>

\* lines 128-140: the RuntimeError handler records the downloads as not_indexed
DeferredUpdate ==
    /\ pc = "deferred"
    /\ ApplyUpdate(PendingRecords(downloaded, now + 1))
    /\ pending_stats' = EmptyIndexStats
    /\ new_stats' = EmptyIndexStats
    /\ response' = [status |-> "502", library_total |-> umResult'.stats.total]
    /\ pc' = "idle"
    /\ UNCHANGED <<crawlVars, engineVars, indexVars, pending_to_index, runs, outage,
                   engineFault, disk>>

\* the process is started again between two requests: the lru_cache is empty
\* and lines 65-68 try create_index() once more
Restart ==
    /\ pc = "idle"
    /\ runs > 0
    /\ clientCached' = esUp
    /\ esIndexExists' = (esIndexExists \/ esUp)
    /\ UNCHANGED <<manifestVars, crawlVars, esUp, esDocs, upserts, indexVars, runVars,
                   disk, now, pc>>

\* lines 65-68: at start-up create_index() is tried once, so the client is
\* cached exactly if the engine answered then
Init ==
    /\ esUp \in BOOLEAN
    /\ clientCached = esUp
    /\ esIndexExists = esUp
    /\ esDocs = << >>
    /\ upserts = << >>
    /\ ledger = [kind |-> "absent"]
    /\ disk = << >>
    /\ now = 0
    /\ ManifestIdle
    /\ CrawlIdle
    /\ IndexIdle
    /\ RunIdle
    /\ pc = "idle"

Next ==
    \/ StartScraping
    \/ CrawlDequeue
    \/ RequestAttempt
    \/ ProcessLink
    \/ CrawlReturn
    \/ LoadPending
    \/ CreateIndex
    \/ CallPending
    \/ IndexMultipleBegin
    \/ IndexPdf
    \/ IndexMultipleReturn
    \/ CallNew
    \/ UpdateSuccess
    \/ DeferredUpdate
    \/ EngineToggle
    \/ Restart

Spec == Init /\ [][Next]_vars

(***************************************************************************)
(* SpecRuns: a longer sequence of start_scraping requests on a small site, *)
(* the engine going away and coming back at any moment, also between two   *)
(* requests.                                                               *)
(***************************************************************************)
InitRuns ==
    /\ esUp \in BOOLEAN
    /\ clientCached = esUp
    /\ esIndexExists = esUp
    /\ esDocs = << >>
    /\ upserts = << >>
    /\ ledger = [kind |-> "absent"]
    /\ disk = << >>
    /\ now = 0
    /\ ManifestIdle
    /\ CrawlIdleOn(TwinLinkSite)
    /\ IndexIdle
    /\ RunIdle
    /\ pc = "idle"

StartScrapingLong == StartRequest(MaxLongRuns)

\* the engine stops or starts answering while no request is served
EngineToggleIdle ==
    /\ pc = "idle"
    /\ runs > 0
    /\ esUp' = ~esUp
    /\ UNCHANGED <<manifestVars, crawlVars, clientCached, esIndexExists, esDocs, upserts,
                   indexVars, runVars, disk, now, pc>>

NextRuns ==
    \/ StartScrapingLong
    \/ CrawlDequeue
    \/ RequestAttempt
    \/ ProcessLink
    \/ CrawlReturn
    \/ LoadPending
    \/ CreateIndex
    \/ CallPending
    \/ IndexMultipleBegin
    \/ IndexPdf
    \/ IndexMultipleReturn
    \/ CallNew
    \/ UpdateSuccess
    \/ DeferredUpdate
    \/ EngineToggle
    \/ EngineToggleIdle
    \/ Restart

SpecRuns == InitRuns /\ [][NextRuns]_vars


(***************************************************************************)
(* Properties of the manifest store.                                       *)
(***************************************************************************)
\* the lattice rank of the status the ledger holds for a content id
\* (rank 0, that of unknown, while the ledger holds no such document)
LedgerRank(file, sha) == StatusPriority(StatusOrUnknown(DocOf(LoadManifest(file), sha)))

\* C3: across update_manifest calls the lattice rank of the status of a
\* content id never decreases; a duplicate or not_indexed record merged into
\* an indexed document leaves it indexed.
C3_StatusRankNeverDecreases ==
    [][\A sha \in Shas : LedgerRank(ledger', sha) >= LedgerRank(ledger, sha)]_vars

\* C3 witness: a duplicate record was merged into a document that a former
\* call had made indexed, and the ledger still says indexed.
C3_Witness ==
    /\ calls >= 2
    /\ Len(umRecords) = 1
    /\ StatusOrUnknown(umRecords[1]) = "duplicate"
    /\ StatusOrUnknown(DocOf(LoadManifest(ledger), ShaOf(umRecords[1]))) = "indexed"

\* C5: a call that repeats the records of the call before it returns the
\* same Manifest (documents, stats, updated_at) and does not write the ledger.
C5_UpdateIdempotent ==
    umRepeat # << >> => (umResult = umRepeat[1] /\ ~umWrote)

\* C5 witness: the first call created the ledger with one document, the
\* second call repeated its record.
C5_Witness ==
    /\ calls = 2
    /\ umRepeat # << >>
    /\ Len(umRecords) = 1
    /\ Len(umResult.documents) = 1
    /\ ledger.kind = "ok"

(***************************************************************************)
(* Properties of the crawler.                                              *)
(***************************************************************************)
\* the host of a URL, with or without its port and whatever its case, is a
\* member of the supplied hosts, each taken with or without its port
InAllowedHosts(url, hosts) ==
    \E h \in hosts :
        {Lower(url.netloc), Hostname(url.netloc)}
            \cap {Lower(h), SplitPort(Lower(h))} # {}

\* C8: when allowed_hosts is supplied, no page fetch and no document download
\* is issued for a discovered link whose host is not a member of it; on the
\* site A -> B -> c.pdf, A -> D with allowed_hosts = {host(A)}, D is never
\* fetched and nothing but c.pdf is downloaded.
C8_OnlyAllowedHostsFetched ==
    allowed_hosts.supplied =>
        /\ \A u \in DOMAIN fetched :
              u = StartUrl \/ InAllowedHosts(u, allowed_hosts.hosts)
        /\ (web = ChainSite /\ allowed_hosts.hosts = {"a.test"}) =>
              (PageD \notin DOMAIN fetched /\ DOMAIN disk \subseteq {"c.pdf"})

\* C9: in one crawl no URL, page or document candidate, has more than one
\* fetch operation started for it.
C9_NoUrlFetchedTwice ==
    \A u \in DOMAIN fetched : fetched[u] <= 1

AllTimeouts(log) == \A i \in DOMAIN log : log[i] = "timeout"

\* C10: _request_with_retries(url, retries=N) issues at most N GETs; only a
\* timeout is followed by another GET, and it is while fewer than N were
\* made; a 403, a 404, another status that is not 200 or a transport error
\* ends the call with None at once; N timeouts end it with None.
C10_RetryPolicy ==
    /\ Len(reqLog) <= retries
    /\ \A i \in 1..(Len(reqLog) - 1) : reqLog[i] = "timeout"
    /\ (reqLog # << >> /\ AllTimeouts(reqLog) /\ Len(reqLog) < retries)
          => (pc = "crawl_fetch" /\ reqResult = "pending")
    /\ (reqLog # << >> /\ reqLog[Len(reqLog)] \in {"3xx", "403", "404", "500", "error"})
          => (pc # "crawl_fetch" /\ reqResult = "none")
    /\ (reqLog # << >> /\ AllTimeouts(reqLog) /\ Len(reqLog) = retries)
          => (pc # "crawl_fetch" /\ reqResult = "none")
    /\ pc = "crawl_fetch" => (reqResult = "pending" /\ Len(reqLog) < retries)

\* C10 witness: three timeouts in a row with retries=3 ended the call with None.
C10_Witness ==
    /\ retries = DefaultRetries
    /\ reqLog = <<"timeout", "timeout", "timeout">>
    /\ reqResult = "none"
    /\ pc = "crawl_loop"

(***************************************************************************)
(* Properties of the indexer.                                              *)
(***************************************************************************)
\* the content id of a file of the download directory, from its bytes
ShaOnDisk(path) == FileSha256(disk[path].content)

\* the last index_multiple call was given two files of different names and
\* equal bytes, with text, whose content id the engine did not hold, and the
\* engine answered throughout
TwinsIndexed ==
    /\ pc = "idle"
    /\ imOutcome = "returned"
    /\ Len(imInput) = 2
    /\ imInput[1]["path"] # imInput[2]["path"]
    /\ imInput[1]["url"] # imInput[2]["url"]
    /\ \A i \in 1..2 : imInput[i]["path"] \in DOMAIN disk
    /\ disk[imInput[1]["path"]].content = disk[imInput[2]["path"]].content
    /\ Strip(ExtractPdfText(disk[imInput[1]["path"]].content)) # ""
    /\ ShaOnDisk(imInput[1]["path"]) \notin imBefore

\* C6: indexing two files of identical bytes and different names, the engine
\* reachable and not holding their content id, yields one indexed and one
\* duplicate record with the same id, and the engine got that id once.
C6_TwinsIndexedOnce ==
    TwinsIndexed =>
        LET sha == ShaOnDisk(imInput[1]["path"])
            docs == imStats.documents
        IN  /\ Len(docs) = 2
            /\ Cardinality({i \in 1..2 : docs[i]["status"] = "indexed"}) = 1
            /\ Cardinality({i \in 1..2 : docs[i]["status"] = "duplicate"}) = 1
            /\ \A i \in 1..2 : docs[i]["id"] = sha /\ docs[i]["sha256"] = sha
            /\ imStats.indexed = 1 /\ imStats.duplicates = 1
            /\ sha \in DOMAIN esDocs
            /\ imWrites = <<sha>>

\* C6 witness: such a call was made and returned.
C6_Witness == TwinsIndexed /\ Len(imStats.documents) = 2

\* the last index_multiple call was given N >= 1 documents, every one of them
\* a file still on disk whose content id the engine already held from an
\* earlier call, and the engine answered throughout
ReindexedAll ==
    /\ pc = "idle"
    /\ imOutcome = "returned"
    /\ imInput # << >>
    /\ \A i \in DOMAIN imInput :
          /\ imInput[i]["path"] \in DOMAIN disk
          /\ ShaOnDisk(imInput[i]["path"]) \in imBefore

\* C7: index_multiple on N documents that an earlier call indexed returns
\* indexed=0 and duplicates=N and writes nothing to the engine.
C7_ReindexIsNoOp ==
    ReindexedAll =>
        /\ imStats.indexed = 0
        /\ imStats.duplicates = Len(imInput)
        /\ imStats.skipped = 0
        /\ imWrites = << >>

\* C7 witness: a second call repeated two documents the first call indexed.
C7_Witness ==
    /\ ReindexedAll
    /\ runs = 2
    /\ Len(imInput) = 2
    /\ imInput[1]["path"] # imInput[2]["path"]
    /\ imStats.duplicates = 2

(***************************************************************************)
(* Properties of the start_scraping request.                               *)
(***************************************************************************)
\* the files the crawl of this request returned descriptors for
DownloadedPaths == {downloaded[i]["path"] : i \in DOMAIN downloaded}

\* a start_scraping request has been answered, and the answer is still there
RunAnswered == pc = "idle" /\ runs > 0 /\ response.status # "400"

\* C1: if the engine is unreachable when the request reaches its indexing
\* phase and the crawl downloaded 2 files, both on disk, the manifest holding
\* no pending document, then the answer is the deferred error (502), the
\* manifest holds both files as not_indexed with indexed=false, and the
\* pending documents of the manifest are exactly those 2.
C1_OutageDefersTwoDownloads ==
    (/\ RunAnswered
     /\ engineFault = "create_index"
     /\ Cardinality(DownloadedPaths) = 2
     /\ DownloadedPaths \subseteq DOMAIN disk
     /\ pending_to_index = << >>)
    => LET manifest == LoadManifest(ledger)
           pending == PendingDocuments(manifest)
       IN  /\ response.status = "502"
           /\ \A path \in DownloadedPaths :
                 LET doc == DocOf(manifest, ShaOnDisk(path))
                 IN  /\ doc # EmptyDict
                     /\ doc["status"] = "not_indexed"
                     /\ doc["indexed"] = FALSE
           /\ {ShaOf(pending[i]) : i \in DOMAIN pending}
                 = {ShaOnDisk(path) : path \in DownloadedPaths}

\* C2: whenever an engine call of the indexing phase finds the engine
\* unreachable, the request ends on the deferred path (502) and every
\* downloaded file still on disk is recorded in the manifest.
C2_EngineFaultTakesDeferredPath ==
    (RunAnswered /\ engineFault # "none")
    => /\ response.status = "502"
       /\ \A path \in DownloadedPaths \cap DOMAIN disk :
             DocOf(LoadManifest(ledger), ShaOnDisk(path)) # EmptyDict

\* C4: the pending documents start_scraping computes are exactly the
\* documents of the manifest whose status is not indexed: none of them is
\* indexed, and no unknown, not_indexed, no_text or duplicate one is left out.
C4_PendingIsExactlyNotIndexed ==
    pc = "create_index" =>
        LET documents == LoadManifest(ledger).documents
        IN  /\ \A i \in DOMAIN pending_to_index :
                  /\ pending_to_index[i]["status"] # "indexed"
                  /\ \E j \in DOMAIN documents : documents[j] = pending_to_index[i]
            /\ \A j \in DOMAIN documents :
                  documents[j]["status"]
                        \in {"unknown", "not_indexed", "no_text", "duplicate"}
                    => \E i \in DOMAIN pending_to_index :
                          pending_to_index[i] = documents[j]

\* C4 witness: the manifest holds an indexed document and another one, and
\* the pending documents were just computed.
C4_Witness ==
    /\ pc = "create_index"
    /\ pending_to_index # << >>
    /\ \E j \in DOMAIN LoadManifest(ledger).documents :
          LoadManifest(ledger).documents[j]["status"] = "indexed"

(***************************************************************************)
(* Properties of the crawl as a whole and of download_pdf.                 *)
(***************************************************************************)
\* the host of a URL is in the scope the caller asked for
InScope(url) ==
    ~allowed_hosts.supplied \/ InAllowedHosts(url, allowed_hosts.hosts)

\* the http(s) URLs the anchors of a page lead to that are not documents
PageTargets(page) ==
    {u \in {Urljoin(page, Links(web, page)[i]) :
                i \in {j \in DOMAIN Links(web, page) :
                          ~IsEmptyHref(Links(web, page)[j])}} :
        u.scheme \in {"http", "https"} /\ ~IsPdfPath(u.path)}

C15_CrawlTerminates ==
    /\ <>(pc = "crawl_done")
    /\ [](pc = "crawl_done" => queue = << >>)

\* C15 witness: the crawl of the site with the cycle A -> B -> A returned
\* after fetching every page of the cycle.
C15_Witness ==
    /\ pc = "crawl_done"
    /\ web = MeshSite
    /\ {StartUrl, PageB, PageE} \subseteq pageOk
    /\ queue = << >>

\* C16: a download whose GET timed out is tried again (up to the default
\* number of attempts) before download_pdf returns none.
C16_DownloadRetriesTimeout ==
    (dl.gets # << >> /\ dl.gets[1] = "timeout" /\ DefaultRetries > 1)
        => Len(dl.gets) > 1

\* C17: download_pdf answers from the file when a file of the target name
\* exists (a descriptor, no GET, the file untouched), issues a GET only when
\* none exists, and writes a file only after a 2xx response.
C17_FilesystemIsFetchCache ==
    /\ dl.existed => (dl.returned /\ dl.gets = << >> /\ ~dl.wrote)
    /\ dl.gets # << >> => ~dl.existed
    /\ dl.wrote => (dl.gets # << >> /\ dl.gets[Len(dl.gets)] = "200")

(***************************************************************************)
(* Properties of load_manifest and of the ledger as a whole.               *)
(***************************************************************************)
\* C12: load_manifest returns a Manifest for every state of the ledger file,
\* and the empty Manifest when the file is absent or malformed (not JSON, or
\* JSON whose top level is not the expected object).
C12_LoadNeverFails ==
    loaded # << >> =>
        /\ "documents" \in DOMAIN loaded[2]
        /\ loaded[1].kind # "ok" => loaded[2] = DefaultManifest

\* the content ids of the documents of a ledger file
LedgerIds(file) ==
    {ShaOf(LoadManifest(file).documents[i]) :
        i \in DOMAIN LoadManifest(file).documents}

\* C20: across update_manifest calls the set of content ids of the ledger
\* never loses a member, and the ledger holds one document per content id.
C20_LedgerOnlyGrows ==
    /\ [](Cardinality(LedgerIds(ledger)) = Len(LoadManifest(ledger).documents))
    /\ [][LedgerIds(ledger) \subseteq LedgerIds(ledger')]_vars

\* C20 witness: the ledger holds two content ids, and the last call merged a
\* record into a document the ledger already held.
C20_Witness ==
    /\ calls = 3
    /\ Cardinality(LedgerIds(ledger)) = 2
    /\ Len(umRecords) = 1
    /\ umWrote
    /\ Len(umResult.documents) = 2

(***************************************************************************)
(* Properties of index_pdf and index_multiple on documents without text    *)
(* and on missing files.                                                   *)
(***************************************************************************)
\* the positions of the documents of a list that have the given status
WithStatusIn(documents, status) ==
    {i \in DOMAIN documents : documents[i]["status"] = status}

\* the inputs of the last index_multiple call whose file is on disk
InputsOnDisk == SelectSeq(imInput, LAMBDA doc : doc["path"] \in DOMAIN disk)

\* the texts that are empty or nothing but white space
BlankTexts == {"", " "}

\* the inputs of the last index_multiple call whose file has no text
InputsWithoutText ==
    SelectSeq(InputsOnDisk,
              LAMBDA doc : ExtractPdfText(disk[doc["path"]].content) \in BlankTexts)

\* C18: a document whose text is empty or white space is never written to
\* the engine; it gets a no_text record with indexed=false, with no es.exists
\* and no es.index call, is returned and counted as skipped, in every call.
C18_NoTextNeverIndexed ==
    /\ \A id \in DOMAIN esDocs : esDocs[id]["content"] \notin BlankTexts
    /\ \A i \in DOMAIN imRecords :
          LET without == ExtractPdfText(disk[imRecords[i]["path"]].content)
                            \in BlankTexts
          IN  /\ without <=> imRecords[i]["status"] = "no_text"
              /\ without =>
                    /\ imRecords[i]["indexed"] = FALSE
                    /\ \A j \in DOMAIN imChecks : imChecks[j] # imRecords[i]["sha256"]
                    /\ \A j \in DOMAIN imWrites : imWrites[j] # imRecords[i]["sha256"]
    /\ counts.skipped = Cardinality(WithStatusIn(imRecords, "no_text"))
    /\ (pc = "idle" /\ imOutcome = "returned") =>
          /\ Cardinality(WithStatusIn(imStats.documents, "no_text"))
                = Len(InputsWithoutText)
          /\ imStats.skipped = Len(InputsWithoutText)

\* C18 witness: a second index_multiple call returned, again with a no_text
\* record first and an indexed or duplicate one after it.
C18_Witness ==
    /\ pc = "idle"
    /\ runs = 2
    /\ imOutcome = "returned"
    /\ Len(imStats.documents) = 2
    /\ imStats.skipped = 1
    /\ imStats.documents[1]["status"] = "no_text"

\* C19: the engine answering, index_multiple gives no record for an input
\* whose file is missing and one record, in input order, for every other
\* input; each counter is the number of records of its status, and the three
\* add up to the number of documents returned.
C19_MissingFileSkipsOneInput ==
    (pc = "idle" /\ imOutcome = "returned") =>
        LET docs == imStats.documents
        IN  /\ Len(docs) = Len(InputsOnDisk)
            /\ \A i \in DOMAIN docs :
                  /\ docs[i]["path"] = InputsOnDisk[i]["path"]
                  /\ docs[i]["url"] = InputsOnDisk[i]["url"]
            /\ imStats.indexed = Cardinality(WithStatusIn(docs, "indexed"))
            /\ imStats.duplicates = Cardinality(WithStatusIn(docs, "duplicate"))
            /\ imStats.skipped
                  = Cardinality({i \in DOMAIN docs :
                        docs[i]["status"] \notin {"indexed", "duplicate"}})
            /\ imStats.indexed + imStats.duplicates + imStats.skipped = Len(docs)

\* C19 witness: a call whose first input is a missing file returned a
\* record for its second input, which was indexed.
C19_Witness ==
    /\ pc = "idle"
    /\ imOutcome = "returned"
    /\ Len(imInput) = 2
    /\ imInput[1]["path"] \notin DOMAIN disk
    /\ Len(imStats.documents) = 1
    /\ imStats.indexed = 1

(***************************************************************************)
(* Properties of the deferred path and of the retry of pending documents.  *)
(***************************************************************************)
\* the request was answered on the engine-unreachable path
RunDeferred == RunAnswered /\ response.status = "502"

\* the content ids of the files the crawl of this request returned
DownloadedShas ==
    {ShaOnDisk(path) : path \in DownloadedPaths \cap DOMAIN disk}

C14_PendingIsIndexedByLaterRun ==
    (RunAnswered /\ ~outage /\ response.status = "200") =>
        \A i \in DOMAIN pending_to_index :
            LET before == pending_to_index[i]
            IN  (/\ before["status"] = "not_indexed"
                 /\ before["path"] \in DOMAIN disk
                 /\ ExtractPdfText(disk[before["path"]].content) \notin BlankTexts)
                => /\ ShaOf(before) \in DOMAIN esDocs
                   /\ DocOf(LoadManifest(ledger), ShaOf(before))["status"] = "indexed"

(***************************************************************************)
(* Properties of the indexed flag.                                         *)
(***************************************************************************)
\* the indexed flag the ledger holds for a content id (FALSE while it holds
\* no such document)
FlagOf(file, sha) == IndexedFlag(DocOf(LoadManifest(file), sha))

\* every record of the call carries an indexed flag
RecordsCarryFlag(records) ==
    \A i \in DOMAIN records : "indexed" \in DOMAIN records[i]

\* some record of the call reports the content id with indexed=true
ReportedIndexed(records, sha) ==
    \E i \in DOMAIN records :
        /\ ShaOf(records[i]) = sha
        /\ "indexed" \in DOMAIN records[i]
        /\ records[i]["indexed"]

\* C21: over every update_manifest call, a document whose indexed flag is
\* true keeps it, whatever the records report (duplicate or not_indexed
\* with indexed=false included), and when the records carry a flag the new
\* flag is the old one OR the reported ones.
C21_IndexedFlagIsSticky ==
    [][calls' = calls + 1 =>
         \A sha \in Shas :
             /\ FlagOf(ledger, sha) => FlagOf(ledger', sha)
             /\ RecordsCarryFlag(umRecords') =>
                    (FlagOf(ledger', sha)
                        = (FlagOf(ledger, sha) \/ ReportedIndexed(umRecords', sha)))
      ]_vars

\* the ledger holds h1 with a true flag right after a call that reported h1
\* as duplicate or not_indexed with indexed=false
C21_Witness ==
    /\ calls >= 2
    /\ Len(umRecords) = 1
    /\ ShaOf(umRecords[1]) = "h1"
    /\ "status" \in DOMAIN umRecords[1]
    /\ umRecords[1]["status"] \in {"duplicate", "not_indexed"}
    /\ "indexed" \in DOMAIN umRecords[1]
    /\ ~umRecords[1]["indexed"]
    /\ FlagOf(ledger, "h1")

(***************************************************************************)
(* Properties of the engine over a sequence of requests.                   *)
(***************************************************************************)
\* the last element of a non-empty sequence
Last(seq) == seq[Len(seq)]

\* C22: over any sequence of start_scraping requests, the engine up or down
\* at any moment, each content id is upserted at most once, and an upsert is
\* issued only for an id whose existence check, made in the same index_pdf
\* call, found it absent.
C22_UpsertAtMostOnce ==
    /\ [](\A sha \in DOMAIN upserts : upserts[sha] <= 1)
    /\ [][upserts' # upserts =>
             \E sha \in DOMAIN upserts' :
                 /\ upserts' = Put(upserts, sha, Upserted(sha) + 1)
                 /\ sha \notin DOMAIN esDocs
                 /\ imChecks' = Append(imChecks, sha)
                 /\ imWrites' = Append(imWrites, sha)
         ]_vars

\* a later request checked an id that an earlier request had upserted, in
\* the pending batch, and did not write it again
C22_Witness ==
    /\ runs >= 2
    /\ phase = "pending"
    /\ imChecks # << >>
    /\ imWrites = << >>
    /\ Upserted(Last(imChecks)) = 1

\* the documents of the ledger, as load_manifest returns them
LedgerDocuments == LoadManifest(ledger).documents

\* C23: in every state of a sequence of start_scraping requests that began
\* with an empty ledger, a manifest document with status indexed or with a
\* true indexed flag has its content id in the engine, and its status is
\* indexed exactly when its flag is true.
C23_LedgerWithinEngine ==
    \A i \in DOMAIN LedgerDocuments :
        LET doc == LedgerDocuments[i]
        IN  /\ (StatusOrUnknown(doc) = "indexed" \/ IndexedFlag(doc))
                   => ShaOf(doc) \in DOMAIN esDocs
            /\ (StatusOrUnknown(doc) = "indexed") <=> IndexedFlag(doc)

\* after a later request reported an indexed document as duplicate with
\* indexed=false, the ledger still holds it as indexed
C23_Witness ==
    /\ RunAnswered
    /\ runs >= 2
    /\ response.status = "200"
    /\ \E i \in DOMAIN LedgerDocuments, j \in DOMAIN umRecords :
          /\ ShaOf(umRecords[j]) = ShaOf(LedgerDocuments[i])
          /\ umRecords[j]["status"] = "duplicate"
          /\ \A k \in DOMAIN umRecords : umRecords[k]["status"] # "indexed"
          /\ LedgerDocuments[i]["status"] = "indexed"
          /\ LedgerDocuments[i]["indexed"]

====
